---- MODULE Spec2Model ----
(***************************************************************************)
(* RFM customer segmentation (src/rfm_analysis_app.py).                    *)
(*                                                                         *)
(* The script body is one synchronous run over the uploaded transaction    *)
(* table.  Each stage of the script is one action; an exception raised by  *)
(* a stage (pd.to_datetime on an unparseable date, pd.qcut on duplicate    *)
(* bin edges) ends the run in pc = "failed".  Streamlit runs the script    *)
(* again from the top on every interaction (Rerun).                        *)
(*                                                                         *)
(* Arithmetic is exact: a quantile edge e of a q-quantile cut is kept as   *)
(* the integer q*e, and a value x is compared with it as q*x.  Instants    *)
(* are counted in ticks, TicksPerDay ticks to the day.  Tables hold no     *)
(* missing cells and at least one row.                                     *)
(***************************************************************************)
EXTENDS Integers, Sequences, FiniteSets, TLC

VARIABLES
    uploaded_file,      \* the CSV as uploaded: a sequence of raw rows
    data,               \* the DataFrame `data`: a sequence of rows (records)
    now,                \* the wall clock: the instant datetime.now() returns
    pc,                 \* the stage the run is about to execute
    error,              \* the stage that raised, "none" while none has
    emitted,            \* what the run has written to the page, in order
    correlation_matrix, \* which entries of the Champions matrix are numbers
    runs,               \* script runs started so far in this session
    prev                \* the previous run of the session, as it ended

vars == <<uploaded_file, data, now, pc, error, emitted, correlation_matrix,
          runs, prev>>

----------------------------------------------------------------------------
(* Bounds of the model *)

MaxAmount == 2
MaxDate == 6
TicksPerDay == 2
MaxRuns == 2
SegRows == 2

----------------------------------------------------------------------------
(* Program constants *)

\* Mutant of recency_scores: the labels of the other two measures.
recency_scores_Ascending == <<1, 2, 3, 4, 5>>

recency_scores == <<5, 4, 3, 2, 1>>
frequency_scores == <<1, 2, 3, 4, 5>>
monetary_scores == <<1, 2, 3, 4, 5>>
\* Mutant of segment_labels: the tiers listed from the top.
segment_labels_Reversed == <<"High-Value", "Mid-Value", "Low-Value">>

segment_labels == <<"Low-Value", "Mid-Value", "High-Value">>
ScoreQuantiles == 5
ValueQuantiles == 3

----------------------------------------------------------------------------
(* The uploaded tables.  A raw row holds the PurchaseDate cell as read    *)
(* from the CSV: <<d>> is text naming day d, <<>> is text that names no   *)
(* date.  OrderID is the row's position in the file.                      *)

Shapes ==
    { <<4, 3, 3, 2, 2, 2, 1>>,
      <<4, 3, 3, 2, 2, 1, 1, 1>>,
      <<4, 3, 2, 2, 2, 1, 1, 1, 1>>,
      <<2, 1>>,
      <<1, 1>> }

RECURSIVE SumSeq(_)
SumSeq(s) == IF s = <<>> THEN 0 ELSE Head(s) + SumSeq(Tail(s))

\* The customer (index into shape) owning row i, and i's rank among that
\* customer's rows, when customers' rows are laid out shape[1] rows first.
RECURSIVE OwnerOf(_, _, _)
OwnerOf(shape, c, i) ==
    IF i <= shape[c] THEN <<c, i>> ELSE OwnerOf(shape, c + 1, i - shape[c])

Fixture(shape) ==
    [i \in 1..SumSeq(shape) |->
        LET o == OwnerOf(shape, 1, i) IN
        [CustomerID |-> o[1],
         OrderID |-> i,
         TransactionAmount |-> 1 + ((o[2] - 1) % 2),
         PurchaseDate |-> <<o[1] - 1>>]]

RawDates == {<<>>} \cup {<<d>> : d \in 0..MaxDate}

\* A fixture with one row replaced: the row keeps its customer or goes to
\* customer 1, and takes any amount and any date cell.
Variants(shape) ==
    LET f == Fixture(shape) IN
    { [f EXCEPT ![i] = [CustomerID |-> c, OrderID |-> i,
                        TransactionAmount |-> a, PurchaseDate |-> d]] :
        <<i, c, a, d>> \in
            { t \in (DOMAIN f) \X (DOMAIN shape) \X (1..MaxAmount) \X RawDates :
                t[2] \in {f[t[1]].CustomerID, 1} } }

Uploads == UNION {Variants(shape) : shape \in Shapes}

----------------------------------------------------------------------------
(* DataFrame helpers *)

Column(frame, name) == [i \in DOMAIN frame |-> frame[i][name]]

\* data[name] = vals
SetColumn(frame, name, vals) ==
    [i \in DOMAIN frame |-> (name :> vals[i]) @@ frame[i]]

HasColumn(frame, name) == Len(frame) > 0 /\ name \in DOMAIN frame[1]

RECURSIVE Insert(_, _)
Insert(x, s) ==
    IF s = <<>> THEN <<x>>
    ELSE IF x <= Head(s) THEN <<x>> \o s
    ELSE <<Head(s)>> \o Insert(x, Tail(s))

RECURSIVE SortValues(_)
SortValues(s) == IF s = <<>> THEN <<>> ELSE Insert(Head(s), SortValues(Tail(s)))

\* pd.to_datetime on one cell: the instant of the day's midnight.
ParseDate(cell) == cell[1] * TicksPerDay

\* (now - PurchaseDate).dt.days: whole days, rounded towards minus infinity.
Days(delta) == delta \div TicksPerDay

----------------------------------------------------------------------------
(* groupby / merge *)

RECURSIVE Ascending(_)
Ascending(S) ==
    IF S = {} THEN <<>>
    ELSE LET m == CHOOSE x \in S : \A y \in S : x <= y
         IN <<m>> \o Ascending(S \ {m})

\* groupby('CustomerID'): the distinct keys, ascending.
GroupKeys(frame) == Ascending({frame[i].CustomerID : i \in DOMAIN frame})

RECURSIVE CountWhere(_, _)
CountWhere(frame, k) ==
    IF frame = <<>> THEN 0
    ELSE (IF Head(frame).CustomerID = k THEN 1 ELSE 0) + CountWhere(Tail(frame), k)

RECURSIVE SumWhere(_, _)
SumWhere(frame, k) ==
    IF frame = <<>> THEN 0
    ELSE (IF Head(frame).CustomerID = k THEN Head(frame).TransactionAmount ELSE 0)
         + SumWhere(Tail(frame), k)

\* Mutant of frequency_data: one group per row instead of one per key.
frequency_data_PerRow(frame) ==
    [g \in DOMAIN frame |->
        [CustomerID |-> frame[g].CustomerID,
         Frequency |-> CountWhere(frame, frame[g].CustomerID)]]

\* data.groupby('CustomerID')['OrderID'].count().reset_index(), renamed
frequency_data(frame) ==
    LET ks == GroupKeys(frame) IN
    [g \in DOMAIN ks |-> [CustomerID |-> ks[g], Frequency |-> CountWhere(frame, ks[g])]]

\* data.groupby('CustomerID')['TransactionAmount'].sum().reset_index(), renamed
monetary_data(frame) ==
    LET ks == GroupKeys(frame) IN
    [g \in DOMAIN ks |-> [CustomerID |-> ks[g], MonetaryValue |-> SumWhere(frame, ks[g])]]

\* The rows of `right` whose key matches, each joined to `row`.
RECURSIVE Matches(_, _, _)
Matches(row, right, name) ==
    IF right = <<>> THEN <<>>
    ELSE (IF Head(right).CustomerID = row.CustomerID
            THEN << (name :> Head(right)[name]) @@ row >>
            ELSE <<>>)
         \o Matches(row, Tail(right), name)

\* left.merge(right, on='CustomerID', how='left'), right carrying column `name`
RECURSIVE Merge(_, _, _)
Merge(left, right, name) ==
    IF left = <<>> THEN <<>>
    ELSE Matches(Head(left), right, name) \o Merge(Tail(left), right, name)

----------------------------------------------------------------------------
(* pd.qcut *)

\* The q+1 quantile edges of vals at 0, 1/q, ..., 1 (linear interpolation
\* between order statistics), each multiplied by q.
QuantileEdges(vals, q) ==
    LET v == SortValues(vals)
        n == Len(v)
    IN [k \in 1..(q + 1) |->
            LET num == (k - 1) * (n - 1)
                lo == num \div q
                r == num % q
                hi == IF lo + 1 < n THEN lo + 1 ELSE lo
            IN q * v[lo + 1] + r * (v[hi + 1] - v[lo + 1])]

\* duplicates='raise': the edges must be unique.
EdgesUnique(edges) == Cardinality({edges[k] : k \in DOMAIN edges}) = Len(edges)

\* bins.searchsorted(x, side='left'), with include_lowest: the 1-based bin of x.
BinOf(edges, q, x) ==
    IF q * x = edges[1] THEN 1
    ELSE Cardinality({k \in DOMAIN edges : edges[k] < q * x})

\* Mutant of QCut: duplicate edges are not an error.
QCut_IgnoreDuplicates(vals, q, labels) ==
    LET edges == QuantileEdges(vals, q) IN
    [ok |-> TRUE,
     out |-> [i \in DOMAIN vals |-> labels[BinOf(edges, q, vals[i])]]]

\* pd.qcut(vals, q=q, labels=labels): raises on duplicate edges, otherwise
\* the label of each value's bin.
QCut(vals, q, labels) ==
    LET edges == QuantileEdges(vals, q) IN
    IF ~EdgesUnique(edges)
    THEN [ok |-> FALSE, out |-> <<>>]
    ELSE [ok |-> TRUE,
          out |-> [i \in DOMAIN vals |-> labels[BinOf(edges, q, vals[i])]]]

----------------------------------------------------------------------------
(* The five masked assignments of lines 58-62 *)

\* Mutant of SegmentCondition: the second range closed at 9.
SegmentCondition_Overlap(k, s) ==
    CASE k = 1 -> s >= 9
      [] k = 2 -> s >= 6 /\ s <= 9
      [] k = 3 -> s >= 5 /\ s < 6
      [] k = 4 -> s >= 4 /\ s < 5
      [] k = 5 -> s < 4

SegmentCondition(k, s) ==
    CASE k = 1 -> s >= 9
      [] k = 2 -> s >= 6 /\ s < 9
      [] k = 3 -> s >= 5 /\ s < 6
      [] k = 4 -> s >= 4 /\ s < 5
      [] k = 5 -> s < 4

SegmentName(k) ==
    CASE k = 1 -> "Champions"
      [] k = 2 -> "Potential Loyalists"
      [] k = 3 -> "At Risk Customers"
      [] k = 4 -> "Can't Lose"
      [] k = 5 -> "Lost"

\* data.loc[condition k, 'RFM Customer Segments'] = name k
AssignSegment(frame, k) ==
    [i \in DOMAIN frame |->
        IF SegmentCondition(k, frame[i].RFM_Score)
        THEN [frame[i] EXCEPT !.CustomerSegment = SegmentName(k)]
        ELSE frame[i]]

----------------------------------------------------------------------------
(* The Champions views *)

\* data[data['RFM Customer Segments'] == 'Champions']
champions_segment(frame) ==
    SelectSeq(frame, LAMBDA r : r.CustomerSegment = "Champions")

ScoreColumns == <<"RecencyScore", "FrequencyScore", "MonetaryScore">>

Varies(frame, name) ==
    \E i, j \in DOMAIN frame : frame[i][name] # frame[j][name]

\* .corr(): the Pearson coefficient of two columns is a number when both
\* columns vary over the rows, and NaN otherwise (fewer than two rows, or a
\* column without variance).
Corr(frame) ==
    [a \in DOMAIN ScoreColumns |-> [b \in DOMAIN ScoreColumns |->
        IF Varies(frame, ScoreColumns[a]) /\ Varies(frame, ScoreColumns[b])
        THEN "number" ELSE "NaN"]]

----------------------------------------------------------------------------
(* The run *)

Init ==
    /\ uploaded_file \in Uploads
    /\ data = <<>>
    /\ now = MaxDate * TicksPerDay + (TicksPerDay - 1)
    /\ pc = "read"
    /\ error = "none"
    /\ emitted = <<>>
    /\ correlation_matrix = <<>>
    /\ runs = 1
    /\ prev = <<>>

\* The stage at pc raises: the script stops where it is.
Raise(stage) ==
    /\ pc' = "failed"
    /\ error' = stage
    /\ UNCHANGED <<uploaded_file, data, now, emitted, correlation_matrix, runs, prev>>

\* The stage replaces `data` and the script goes on.
Continue(frame, next) ==
    /\ data' = frame
    /\ pc' = next
    /\ UNCHANGED <<uploaded_file, now, error, emitted, correlation_matrix, runs, prev>>

\* st.write / st.plotly_chart
Emit(what, next) ==
    /\ emitted' = Append(emitted, what)
    /\ pc' = next
    /\ UNCHANGED <<uploaded_file, data, now, error, correlation_matrix, runs, prev>>

ReadCsv ==
    /\ pc = "read"
    /\ data' = uploaded_file
    /\ emitted' = Append(emitted, "Data Preview")
    /\ pc' = "parse"
    /\ UNCHANGED <<uploaded_file, now, error, correlation_matrix, runs, prev>>

ParseDates ==
    /\ pc = "parse"
    /\ IF \E i \in DOMAIN data : data[i].PurchaseDate = <<>>
       THEN Raise("parse")
       ELSE Continue(SetColumn(data, "PurchaseDate",
                        [i \in DOMAIN data |-> ParseDate(data[i].PurchaseDate)]),
                     "recency")

\* datetime.now() is read once in a run.
ComputeRecency ==
    /\ pc = "recency"
    /\ Continue(SetColumn(data, "Recency",
                    [i \in DOMAIN data |-> Days(now - data[i].PurchaseDate)]),
                "aggregate")

Aggregate ==
    /\ pc = "aggregate"
    /\ LET fd == frequency_data(data)
           md == monetary_data(data)
       IN Continue(Merge(Merge(data, fd, "Frequency"), md, "MonetaryValue"),
                   "scoreR")

\* data[dst] = pd.qcut(data[src], q=5, labels=labels).astype(int)
Score(stage, src, dst, labels, next) ==
    /\ pc = stage
    /\ LET cut == QCut(Column(data, src), ScoreQuantiles, labels) IN
       IF cut.ok THEN Continue(SetColumn(data, dst, cut.out), next)
       ELSE Raise(stage)

ScoreRecency ==
    Score("scoreR", "Recency", "RecencyScore", recency_scores, "scoreF")

ScoreFrequency ==
    Score("scoreF", "Frequency", "FrequencyScore", frequency_scores, "scoreM")

ScoreMonetary ==
    Score("scoreM", "MonetaryValue", "MonetaryScore", monetary_scores, "rfm")

\* Mutant of ComputeRfmScore: FrequencyScore added twice, MonetaryScore not.
ComputeRfmScore_Typo ==
    /\ pc = "rfm"
    /\ Continue(SetColumn(data, "RFM_Score",
                    [i \in DOMAIN data |-> data[i].RecencyScore
                                           + data[i].FrequencyScore
                                           + data[i].FrequencyScore]),
                "value")

ComputeRfmScore ==
    /\ pc = "rfm"
    /\ Continue(SetColumn(data, "RFM_Score",
                    [i \in DOMAIN data |-> data[i].RecencyScore
                                           + data[i].FrequencyScore
                                           + data[i].MonetaryScore]),
                "value")

\* Mutant of ValueSegment: the segmented table is written before the binning.
ValueSegment_AfterShow ==
    /\ pc = "value"
    /\ emitted' = Append(emitted, "RFM Segmented Data")
    /\ LET cut == QCut(Column(data, "RFM_Score"), ValueQuantiles, segment_labels) IN
       IF cut.ok
       THEN data' = SetColumn(data, "ValueSegment", cut.out)
            /\ pc' = "seg0" /\ error' = error
       ELSE data' = data /\ pc' = "failed" /\ error' = "value"
    /\ UNCHANGED <<uploaded_file, now, correlation_matrix, runs, prev>>

ValueSegment ==
    /\ pc = "value"
    /\ LET cut == QCut(Column(data, "RFM_Score"), ValueQuantiles, segment_labels) IN
       IF cut.ok THEN Continue(SetColumn(data, "ValueSegment", cut.out), "seg0")
       ELSE Raise("value")

InitSegments ==
    /\ pc = "seg0"
    /\ Continue(SetColumn(data, "CustomerSegment", [i \in DOMAIN data |-> ""]), "seg1")

AssignChampions == pc = "seg1" /\ Continue(AssignSegment(data, 1), "seg2")

AssignPotentialLoyalists == pc = "seg2" /\ Continue(AssignSegment(data, 2), "seg3")

AssignAtRisk == pc = "seg3" /\ Continue(AssignSegment(data, 3), "seg4")

AssignCantLose == pc = "seg4" /\ Continue(AssignSegment(data, 4), "seg5")

AssignLost == pc = "seg5" /\ Continue(AssignSegment(data, 5), "show")

ShowSegments == pc = "show" /\ Emit("RFM Segmented Data", "dist")

ShowDistribution == pc = "dist" /\ Emit("fig_segment_dist", "treemap")

ShowTreemap == pc = "treemap" /\ Emit("fig_treemap_segment_product", "box")

ShowBox == pc = "box" /\ Emit("fig_box", "corr")

ShowCorrelation ==
    /\ pc = "corr"
    /\ correlation_matrix' = Corr(champions_segment(data))
    /\ emitted' = Append(emitted, "fig_heatmap")
    /\ pc' = "means"
    /\ UNCHANGED <<uploaded_file, data, now, error, runs, prev>>

ShowSegmentScores == pc = "means" /\ Emit("fig_segment_scores", "done")

\* Mutant of Rerun: the page of the previous run is not cleared.
Rerun_KeepsPage ==
    /\ pc \in {"done", "failed"}
    /\ runs < MaxRuns
    /\ prev' = [now |-> now, pc |-> pc, error |-> error, data |-> data,
                emitted |-> emitted, correlation_matrix |-> correlation_matrix]
    /\ runs' = runs + 1
    /\ pc' = "read"
    /\ data' = <<>>
    /\ error' = "none"
    /\ correlation_matrix' = <<>>
    /\ now' \in now..(now + 1)
    /\ UNCHANGED <<uploaded_file, emitted>>

\* The script ended; the next interaction runs it again from the top with
\* the same uploaded file.  The clock has moved on by at most a tick.
Rerun ==
    /\ pc \in {"done", "failed"}
    /\ runs < MaxRuns
    /\ prev' = [now |-> now, pc |-> pc, error |-> error, data |-> data,
                emitted |-> emitted, correlation_matrix |-> correlation_matrix]
    /\ runs' = runs + 1
    /\ pc' = "read"
    /\ data' = <<>>
    /\ error' = "none"
    /\ emitted' = <<>>
    /\ correlation_matrix' = <<>>
    /\ now' \in now..(now + 1)
    /\ UNCHANGED uploaded_file

Next ==
    \/ ReadCsv
    \/ ParseDates
    \/ ComputeRecency
    \/ Aggregate
    \/ ScoreRecency
    \/ ScoreFrequency
    \/ ScoreMonetary
    \/ ComputeRfmScore
    \/ ValueSegment
    \/ InitSegments
    \/ AssignChampions
    \/ AssignPotentialLoyalists
    \/ AssignAtRisk
    \/ AssignCantLose
    \/ AssignLost
    \/ ShowSegments
    \/ ShowDistribution
    \/ ShowTreemap
    \/ ShowBox
    \/ ShowCorrelation
    \/ ShowSegmentScores
    \/ Rerun

Spec == Init /\ [][Next]_vars

----------------------------------------------------------------------------
(* The segment assignment on its own: a frame that holds any RFM_Score     *)
(* column the three score lists can add up to, taken through lines 57-62.  *)

Range(f) == {f[k] : k \in DOMAIN f}

RfmScores ==
    {r + f + m : <<r, f, m>> \in
        Range(recency_scores) \X Range(frequency_scores) \X Range(monetary_scores)}

SegmentInit ==
    /\ data \in [1..SegRows -> {[RFM_Score |-> s] : s \in RfmScores}]
    /\ pc = "seg0"
    /\ uploaded_file = <<>>
    /\ now = 0
    /\ error = "none"
    /\ emitted = <<>>
    /\ correlation_matrix = <<>>
    /\ runs = 1
    /\ prev = <<>>

SegmentNext ==
    \/ InitSegments
    \/ AssignChampions
    \/ AssignPotentialLoyalists
    \/ AssignAtRisk
    \/ AssignCantLose
    \/ AssignLost

SegmentSpec == SegmentInit /\ [][SegmentNext]_vars

----------------------------------------------------------------------------
(* Properties *)

Values(frame, name) == {frame[i][name] : i \in DOMAIN frame}

RECURSIVE ApplyInOrder(_, _, _)
ApplyInOrder(frame, order, k) ==
    IF k > Len(order) THEN frame
    ELSE ApplyInOrder(AssignSegment(frame, order[k]), order, k + 1)

FirstMatch(s) ==
    IF \E k \in 1..5 : SegmentCondition(k, s)
    THEN SegmentName(CHOOSE k \in 1..5 :
            SegmentCondition(k, s) /\ \A j \in 1..(k - 1) : ~SegmentCondition(j, s))
    ELSE ""

SegmentTable(s) ==
    CASE s \in 9..15 -> "Champions"
      [] s \in 6..8 -> "Potential Loyalists"
      [] s = 5 -> "At Risk Customers"
      [] s = 4 -> "Can't Lose"
      [] s = 3 -> "Lost"
      [] OTHER -> "(no row of the table)"

\* C1: once the five assignments have run, every row's score matches exactly
\* one of the five conditions, its segment is the one the table gives for
\* the score (so never the initial empty string), it is the segment of the
\* first matching condition, and running the five assignments in any other
\* order from the initial column gives the same frame.
C1_SegmentIsTotalFunction ==
    pc = "show" =>
        /\ \A i \in DOMAIN data :
            LET s == data[i].RFM_Score IN
            /\ s \in 3..15
            /\ Cardinality({k \in 1..5 : SegmentCondition(k, s)}) = 1
            /\ data[i].CustomerSegment = SegmentTable(s)
            /\ data[i].CustomerSegment # ""
            /\ data[i].CustomerSegment = FirstMatch(s)
        /\ LET blank == [i \in DOMAIN data |->
                            [data[i] EXCEPT !.CustomerSegment = ""]]
           IN \A order \in Permutations(1..5) : ApplyInOrder(blank, order, 1) = data

\* C1 witness: the assignments have run on a frame holding a Champions row
\* (score 9, the boundary) and a Lost row.
C1_Witness ==
    /\ pc = "show"
    /\ \E i, j \in DOMAIN data :
        /\ data[i].RFM_Score = 9 /\ data[i].CustomerSegment = "Champions"
        /\ data[j].RFM_Score = 3 /\ data[j].CustomerSegment = "Lost"

RECURSIVE TotalAmount(_, _)
TotalAmount(table, rows) ==
    IF rows = {} THEN 0
    ELSE LET i == CHOOSE x \in rows : TRUE
         IN table[i].TransactionAmount + TotalAmount(table, rows \ {i})

RowsOf(table, customer) == {j \in DOMAIN table : table[j].CustomerID = customer}

\* C2: after the two merges the frame has one row per uploaded row, in the
\* uploaded order, and every row carries the number of its customer's
\* uploaded rows as Frequency and the sum of their amounts as MonetaryValue,
\* so rows of one customer agree on both.
C2_Broadcast ==
    HasColumn(data, "MonetaryValue") =>
        /\ Len(data) = Len(uploaded_file)
        /\ \A i \in DOMAIN data :
            /\ data[i].CustomerID = uploaded_file[i].CustomerID
            /\ data[i].OrderID = uploaded_file[i].OrderID
            /\ data[i].Frequency
                 = Cardinality({uploaded_file[j].OrderID :
                                    j \in RowsOf(uploaded_file, data[i].CustomerID)})
            /\ data[i].MonetaryValue
                 = TotalAmount(uploaded_file, RowsOf(uploaded_file, data[i].CustomerID))
        /\ \A i, j \in DOMAIN data :
            data[i].CustomerID = data[j].CustomerID =>
                /\ data[i].Frequency = data[j].Frequency
                /\ data[i].MonetaryValue = data[j].MonetaryValue

\* C2 witness: the merges have run on a table in which one customer has
\* rows of different amounts and another customer has a different Frequency.
C2_Witness ==
    /\ pc = "scoreR"
    /\ \E i, j, k \in DOMAIN data :
        /\ i # j
        /\ data[i].CustomerID = data[j].CustomerID
        /\ data[i].TransactionAmount # data[j].TransactionAmount
        /\ data[k].Frequency # data[i].Frequency

\* C3 (the claim as stated): at the end of a successful run, rows of one
\* customer carry the same scores and segments.
C3_CustomerLevelScores ==
    pc = "done" =>
        \A i, j \in DOMAIN data :
            data[i].CustomerID = data[j].CustomerID =>
                /\ data[i].RecencyScore = data[j].RecencyScore
                /\ data[i].FrequencyScore = data[j].FrequencyScore
                /\ data[i].MonetaryScore = data[j].MonetaryScore
                /\ data[i].RFM_Score = data[j].RFM_Score
                /\ data[i].ValueSegment = data[j].ValueSegment
                /\ data[i].CustomerSegment = data[j].CustomerSegment

NonIncreasing(frame, raw, score) ==
    \A i, j \in DOMAIN frame :
        /\ frame[i][raw] > frame[j][raw] => frame[i][score] <= frame[j][score]
        /\ frame[i][raw] = frame[j][raw] => frame[i][score] = frame[j][score]

NonDecreasing(frame, raw, score) ==
    \A i, j \in DOMAIN frame :
        /\ frame[i][raw] > frame[j][raw] => frame[i][score] >= frame[j][score]
        /\ frame[i][raw] = frame[j][raw] => frame[i][score] = frame[j][score]

\* C4: wherever a score column exists (so on every successful run), a larger
\* Recency never has a larger RecencyScore, a larger Frequency or
\* MonetaryValue never has a smaller score, and equal raw values have equal
\* scores.
C4_ScoringMonotonic ==
    /\ HasColumn(data, "RecencyScore") => NonIncreasing(data, "Recency", "RecencyScore")
    /\ HasColumn(data, "FrequencyScore") => NonDecreasing(data, "Frequency", "FrequencyScore")
    /\ HasColumn(data, "MonetaryScore") => NonDecreasing(data, "MonetaryValue", "MonetaryScore")

\* C4 witness: a successful run in which each measure has two rows whose raw
\* values and scores both differ.
C4_Witness ==
    /\ pc = "done"
    /\ \E i, j \in DOMAIN data :
        data[i].Recency > data[j].Recency /\ data[i].RecencyScore < data[j].RecencyScore
    /\ \E i, j \in DOMAIN data :
        data[i].Frequency > data[j].Frequency /\ data[i].FrequencyScore > data[j].FrequencyScore
    /\ \E i, j \in DOMAIN data :
        data[i].MonetaryValue > data[j].MonetaryValue
            /\ data[i].MonetaryScore > data[j].MonetaryScore

Measures ==
    { [raw |-> "Recency", score |-> "RecencyScore", stage |-> "scoreR"],
      [raw |-> "Frequency", score |-> "FrequencyScore", stage |-> "scoreF"],
      [raw |-> "MonetaryValue", score |-> "MonetaryScore", stage |-> "scoreM"] }

ChampionsAtLeastTwo ==
    pc \in {"corr", "means", "done"} => Len(champions_segment(data)) >= 2

C8_ScoreRanges ==
    HasColumn(data, "RFM_Score") =>
        \A i \in DOMAIN data :
            /\ data[i].RecencyScore \in 1..5
            /\ data[i].FrequencyScore \in 1..5
            /\ data[i].MonetaryScore \in 1..5
            /\ data[i].RFM_Score
                 = data[i].RecencyScore + data[i].FrequencyScore + data[i].MonetaryScore
            /\ data[i].RFM_Score \in 3..15

\* C8 witness: a successful run with a row of RFM_Score 15 and a row whose
\* three scores are not all equal.
C8_Witness ==
    /\ pc = "done"
    /\ \E i, j \in DOMAIN data :
        /\ data[i].RFM_Score = 15
        /\ data[j].RecencyScore # data[j].MonetaryScore

SegmentationOutputs ==
    {"RFM Segmented Data", "fig_segment_dist", "fig_treemap_segment_product",
     "fig_box", "fig_heatmap", "fig_segment_scores"}

\* C9: a run in which a stage has raised has emitted no segmentation output
\* (nothing but the preview of the uploaded data); equivalently, a run that
\* has emitted the segmented table or a view never has a failed stage.
C9_AllOrNothing ==
    error # "none" => Range(emitted) \cap SegmentationOutputs = {}

\* C9 witness: the last stage that can raise, the ValueSegment binning, has
\* raised, after all three scorings succeeded.
C9_Witness ==
    /\ pc = "failed"
    /\ error = "value"
    /\ HasColumn(data, "RFM_Score")
    /\ emitted = <<"Data Preview">>

Tiers == {"Low-Value", "Mid-Value", "High-Value"}

Tier(label) ==
    CASE label = "Low-Value" -> 1
      [] label = "Mid-Value" -> 2
      [] label = "High-Value" -> 3

\* C10: once the ValueSegment stage has run, either every row has one of the
\* three tiers, a larger RFM_Score never has a lower tier and equal scores
\* have equal tiers, or the stage raised and assigned nothing; and it raised
\* if the four quantile edges of RFM_Score are not distinct (as when all rows
\* have the same RFM_Score).
C10_ValueSegment ==
    /\ HasColumn(data, "ValueSegment") =>
        /\ \A i \in DOMAIN data : data[i].ValueSegment \in Tiers
        /\ \A i, j \in DOMAIN data :
            /\ data[i].RFM_Score > data[j].RFM_Score =>
                Tier(data[i].ValueSegment) >= Tier(data[j].ValueSegment)
            /\ data[i].RFM_Score = data[j].RFM_Score =>
                data[i].ValueSegment = data[j].ValueSegment
    /\ (HasColumn(data, "RFM_Score") /\ pc # "value") =>
        LET distinct == EdgesUnique(QuantileEdges(Column(data, "RFM_Score"), 3)) IN
        /\ ~distinct => (error = "value" /\ ~HasColumn(data, "ValueSegment"))
        /\ Cardinality(Values(data, "RFM_Score")) = 1 => error = "value"
        /\ distinct => (error = "none" /\ HasColumn(data, "ValueSegment"))

\* C10 witness: a successful run whose rows fall into all three tiers.
C10_Witness ==
    /\ pc = "done"
    /\ Values(data, "ValueSegment") = Tiers

\* The ValueSegment binning can raise: a run fails there on duplicate edges.
ValueSegmentCanRaise ==
    /\ error = "value"
    /\ ~EdgesUnique(QuantileEdges(Column(data, "RFM_Score"), 3))

====
